---- MODULE Spec2Model ----
(***************************************************************************)
(* Model of the JournalParse pseudonymization code:                        *)
(*   - src/pseudonymizer/replacenames.py  find-based replace_terms         *)
(*   - src/replacer/replacenames.py       regex-based replace_terms        *)
(*   - src/privacyanalyzer-ai.py          ContextualPseudonymizer          *)
(* Texts are sequences of one-character strings.  Positions named as in    *)
(* the source (pos, current_pos, start, end) are 0-based like Python's.    *)
(***************************************************************************)
EXTENDS Integers, Sequences, FiniteSets, TLC

VARIABLES
    \* ---- substitution engine (replace_terms) ----
    pc,                  \* "start" | "scan" | "done" | "idle"
    text,                \* the input text
    mappings,            \* the mapping dict: <<[category, items]>>, items = <<<<term, replacement>>>>
    all_terms,           \* sorted list of [term, replacement, category]
    term_idx,            \* 1-based index of the term being processed
    current_pos,         \* scan cursor in result
    result,              \* the text being rewritten
    origin,              \* per character of result: -j = character j of the input,
                         \* k > 0 = inserted as pseudonym of term k
    replacement_counts,  \* defaultdict(int): only keys that were incremented exist
    log,                 \* every replacement made, in order
    \* ---- ContextualPseudonymizer.process_file ----
    pf_pc,               \* "idle" | "detect" | "generate" | "save" | "final_generate" |
                         \* "substitute" | "save_final" | "completed" | "exited"
    chunks,              \* the chunks of the input file, in order
    responses,           \* the detector's response for each chunk
    runs,                \* one record per invocation of process_file: how it was started, how it ended
    resume_from,         \* the resume_from argument of the running invocation
    chunk_i,             \* `i`: index (0-based) of the chunk the detection loop is at
    substitutions,       \* self.substitutions: <<term, category>> -> pseudonym
    runtime_substitutions, \* self.runtime_substitutions: term -> pseudonym
    identified_terms,    \* self.identified_terms: set of <<term, category>>
    failed_chunks,       \* indices of the chunks whose processing raised
    processed_chunks,    \* the substituted chunks
    progress_file,       \* <stem>_progress.json: [exists |-> FALSE] or its content
    mapping_file,        \* <stem>_mapping.json, likewise
    output_file,         \* <stem>_pseudonymized.txt, likewise
    loaded,              \* the checkpoint _load_progress read in this invocation, if any
    terms_order,         \* the order in which the set identified_terms yields its members
                         \* once the detection loop is over
    \* ---- ContextualPseudonymizer._chunk_text ----
    ck_pc,               \* "idle" | "loop" | "done"
    ck_text,             \* the text argument
    chunk_size,          \* the chunk_size argument
    ck_start,            \* `start`: the cursor
    chunk_list,          \* the local list `chunks`
    \* ---- writing <stem>_progress.json (_save_progress, _save_final_results) ----
    sv_pc,               \* "idle" | "start" | "open" | "closed"
    sv_file,             \* the progress file on disk: whether it exists, the pieces it holds
    sv_prev,             \* the checkpoint the file held before the call, if any
    sv_data,             \* progress_data: the checkpoint being written
    observed,            \* what a reader, or whoever looks after a crash, found in the file
    \* ---- detect_identifiers and the traversal of its result in process_file ----
    dt_pc,               \* "idle" | "call" | "returned" | "done"
    response,            \* what ollama_client.generate does for the chunk
    identifiers,         \* what detect_identifiers returned
    found_terms,         \* the pairs the traversal added to all_terms / self.identified_terms
    chunk_failed         \* whether the chunk was appended to failed_chunks

engine_vars == <<pc, text, mappings, all_terms, term_idx, current_pos, result, origin,
                 replacement_counts, log>>

pf_vars == <<pf_pc, chunks, responses, runs, resume_from, chunk_i, substitutions,
             runtime_substitutions, identified_terms, failed_chunks, processed_chunks,
             progress_file, mapping_file, output_file, loaded, terms_order>>

chunker_vars == <<ck_pc, ck_text, chunk_size, ck_start, chunk_list>>

save_vars == <<sv_pc, sv_file, sv_prev, sv_data, observed>>

detector_vars == <<dt_pc, response, identifiers, found_terms, chunk_failed>>

non_engine_vars == <<pf_vars, chunker_vars, save_vars, detector_vars>>

non_pf_vars == <<engine_vars, chunker_vars, save_vars, detector_vars>>

non_chunker_vars == <<engine_vars, pf_vars, save_vars, detector_vars>>

non_save_vars == <<engine_vars, pf_vars, chunker_vars, detector_vars>>

non_detector_vars == <<engine_vars, pf_vars, chunker_vars, save_vars>>

vars == <<engine_vars, pf_vars, chunker_vars, save_vars, detector_vars>>

(***************************************************************************)
(* Bounds of the model                                                     *)
(***************************************************************************)
MaxLen == 6       \* longest input text
MaxTerms == 2     \* most entries in a mapping
MaxChunks == 3    \* most chunks of an input file
MaxRuns == 2      \* most invocations of process_file on the file
MaxText == 5      \* longest text given to _chunk_text
MaxChunkSize == 3 \* largest chunk_size given to _chunk_text
MaxChunkSteps == 7 \* most passes of the loop of _chunk_text that are followed
MaxCategories == 2 \* most categories in a detector's JSON

(***************************************************************************)
(* Characters                                                              *)
(***************************************************************************)
TextChars == {"a", "A", "s", "'", " "}

Lowers == <<"a", "b", "c", "d", "e", "f", "g", "h", "i", "j", "k", "l", "m",
            "n", "o", "p", "q", "r", "s", "t", "u", "v", "w", "x", "y", "z">>

Uppers == <<"A", "B", "C", "D", "E", "F", "G", "H", "I", "J", "K", "L", "M",
            "N", "O", "P", "Q", "R", "S", "T", "U", "V", "W", "X", "Y", "Z">>

Digits == <<"1", "2", "3", "4", "5", "6", "7", "8", "9">>

LowerSet == {Lowers[k] : k \in 1..26}

UpperSet == {Uppers[k] : k \in 1..26}

DigitSet == {Digits[k] : k \in 1..9} \cup {"0"}

LowerOf == [c \in UpperSet |-> Lowers[CHOOSE k \in 1..26 : Uppers[k] = c]]

UpperOf == [c \in LowerSet |-> Uppers[CHOOSE k \in 1..26 : Lowers[k] = c]]

\* str.isalnum() of one character
IsAlnum(c) == c \in LowerSet \/ c \in UpperSet \/ c \in DigitSet

\* str.isspace() of one character
IsSpace(c) == c = " "

\* str.lower() / str.upper() of one character
Lower(c) == IF c \in UpperSet THEN LowerOf[c] ELSE c

Upper(c) == IF c \in LowerSet THEN UpperOf[c] ELSE c

IsCased(c) == c \in LowerSet \/ c \in UpperSet

Min(S) == CHOOSE x \in S : \A y \in S : x <= y

\* Python slice s[a:b] for 0 <= a
Slice(s, a, b) ==
    LET hi == IF b > Len(s) THEN Len(s) ELSE b
    IN  IF a >= hi THEN << >> ELSE SubSeq(s, a + 1, hi)

\* s[i] for a 0-based index i
At(s, i) == s[i + 1]

\* the comparison of a case-insensitive search
OccursAtIgnoreCase(s, t, i) ==
    /\ i >= 0
    /\ i + Len(t) <= Len(s)
    /\ \A j \in 1..Len(t) : Lower(s[i + j]) = Lower(t[j])

OccursAt(s, t, i) == i >= 0 /\ i + Len(t) <= Len(s) /\ SubSeq(s, i + 1, i + Len(t)) = t

\* str.find(t, from): first index >= from where t occurs, or -1
Find(s, t, from) ==
    LET cands == {i \in from..(Len(s) - Len(t)) : OccursAt(s, t, i)}
    IN  IF cands = {} THEN -1 ELSE Min(cands)

\* not s.strip()
IsBlank(s) == \A i \in 1..Len(s) : IsSpace(s[i])

(***************************************************************************)
(* The mapping and its entries                                             *)
(***************************************************************************)
Entry(t, r, c) == [term |-> t, replacement |-> r, category |-> c]

Entries ==
    { Entry(<<"a">>,           <<"[", "1", "]">>, "names"),
      Entry(<<"A">>,           <<"[", "2", "]">>, "names"),
      Entry(<<"a", " ", "a">>, <<"[", "3", "]">>, "names"),
      Entry(<<"a", "s">>,      <<"[", "a", "]">>, "places"),
      Entry(<<" ">>,           <<"[", "5", "]">>, "places") }

EntrySeqs ==
    UNION { {es \in [1..n -> Entries] : \A i, j \in 1..n : i # j => es[i].term # es[j].term}
            : n \in 1..MaxTerms }

RECURSIVE ItemsOf(_, _)
ItemsOf(es, c) ==
    IF es = << >> THEN << >>
    ELSE IF Head(es).category = c
         THEN <<<<Head(es).term, Head(es).replacement>>>> \o ItemsOf(Tail(es), c)
         ELSE ItemsOf(Tail(es), c)

RECURSIVE CategoriesOf(_, _)
CategoriesOf(es, seen) ==
    IF es = << >> THEN << >>
    ELSE IF Head(es).category \in seen
         THEN CategoriesOf(Tail(es), seen)
         ELSE <<Head(es).category>> \o CategoriesOf(Tail(es), seen \cup {Head(es).category})

\* the JSON mapping file holding the entries es: category -> {term: replacement}
MappingDict(es) ==
    LET cs == CategoriesOf(es, {})
    IN  [k \in 1..Len(cs) |-> [category |-> cs[k], items |-> ItemsOf(es, cs[k])]]

RECURSIVE extract_mappings(_)
extract_mappings(data) ==
    IF data = << >> THEN << >>
    ELSE LET d == Head(data)
         IN  [k \in 1..Len(d.items) |-> Entry(d.items[k][1], d.items[k][2], d.category)]
             \o extract_mappings(Tail(data))

\* list.sort(key=len(term), reverse=True): stable, longest first
RECURSIVE InsertByLen(_, _)
InsertByLen(sorted, e) ==
    IF sorted = << >> THEN <<e>>
    ELSE IF Len(Head(sorted).term) >= Len(e.term)
         THEN <<Head(sorted)>> \o InsertByLen(Tail(sorted), e)
         ELSE <<e>> \o sorted

RECURSIVE SortLongestFirst(_)
SortLongestFirst(es) ==
    IF es = << >> THEN << >>
    ELSE InsertByLen(SortLongestFirst(SubSeq(es, 1, Len(es) - 1)), es[Len(es)])

(***************************************************************************)
(* Find-based replace_terms (src/pseudonymizer/replacenames.py)            *)
(***************************************************************************)
is_valid_word_match(word, term) ==
    LET p == Find(word, term, 0)
        before == Slice(word, 0, p)
        after == Slice(word, p + Len(term), Len(word))
    IN  /\ (before = << >> \/ ~IsAlnum(before[Len(before)]))
        /\ (after = << >> \/ ~IsAlnum(after[1]))

Key(e) == <<e.term, e.replacement, e.category>>

\* the count advanced by two
IncrementTwice(counts, k) ==
    IF k \in DOMAIN counts
    THEN [counts EXCEPT ![k] = @ + 2]
    ELSE [x \in DOMAIN counts \cup {k} |-> IF x = k THEN 2 ELSE counts[x]]

\* replacement_counts[k] += 1 on a defaultdict(int)
Increment(counts, k) ==
    IF k \in DOMAIN counts
    THEN [counts EXCEPT ![k] = @ + 1]
    ELSE [x \in DOMAIN counts \cup {k} |-> IF x = k THEN 1 ELSE counts[x]]

\* reading a count the way write_stats sees it: absent keys are not listed
Count(counts, k) == IF k \in DOMAIN counts THEN counts[k] ELSE 0

Window(res, pos, term) ==
    LET start == IF pos - 3 > 0 THEN pos - 3 ELSE 0
        end == IF pos + Len(term) + 3 < Len(res) THEN pos + Len(term) + 3 ELSE Len(res)
    IN  Slice(res, start, end)

\* the text inserted for a valid match at pos and the length of the span it replaces
MatchedLen(res, pos, e) ==
    IF Slice(res, pos + Len(e.term), pos + Len(e.term) + 2) = <<"'", "s">>
    THEN Len(e.term) + 2
    ELSE Len(e.term)

\* the possessive dropped from the inserted text
ReplacementTextBare(res, pos, e) == e.replacement

ReplacementText(res, pos, e) ==
    IF Slice(res, pos + Len(e.term), pos + Len(e.term) + 2) = <<"'", "s">>
    THEN e.replacement \o <<"'", "s">>
    ELSE e.replacement

Event(k, e, res, org, pos, n, ins) ==
    [term_idx |-> k, term |-> e.term, replacement |-> e.replacement,
     category |-> e.category, pre |-> res, pos |-> pos, matched |-> n, ins |-> ins,
     span |-> SubSeq(org, pos + 1, pos + n)]

Fill(n, v) == [i \in 1..n |-> v]

Begin ==
    /\ pc = "start"
    /\ all_terms' = SortLongestFirst(extract_mappings(mappings))
    /\ result' = text
    /\ origin' = [i \in 1..Len(text) |-> -i]
    /\ term_idx' = 1
    /\ current_pos' = 0
    /\ pc' = "scan"
    /\ UNCHANGED <<text, mappings, replacement_counts, log>>
    /\ UNCHANGED non_engine_vars

\* `if not term.strip(): continue`
SkipBlank ==
    /\ pc = "scan"
    /\ term_idx <= Len(all_terms)
    /\ IsBlank(all_terms[term_idx].term)
    /\ term_idx' = term_idx + 1
    /\ current_pos' = 0
    /\ UNCHANGED <<pc, text, mappings, all_terms, result, origin, replacement_counts, log>>
    /\ UNCHANGED non_engine_vars

\* one iteration of `while True:` for the current term
ScanStep ==
    /\ pc = "scan"
    /\ term_idx <= Len(all_terms)
    /\ ~IsBlank(all_terms[term_idx].term)
    /\ LET e == all_terms[term_idx]
           pos == Find(result, e.term, current_pos)
       IN  IF pos = -1
           THEN /\ term_idx' = term_idx + 1
                /\ current_pos' = 0
                /\ UNCHANGED <<result, origin, replacement_counts, log>>
           ELSE IF is_valid_word_match(Window(result, pos, e.term), e.term)
           THEN LET n == MatchedLen(result, pos, e)
                    ins == ReplacementText(result, pos, e)
                IN  /\ result' = Slice(result, 0, pos) \o ins
                                 \o Slice(result, pos + n, Len(result))
                    /\ origin' = Slice(origin, 0, pos) \o Fill(Len(ins), term_idx)
                                 \o Slice(origin, pos + n, Len(origin))
                    /\ replacement_counts' = Increment(replacement_counts, Key(e))
                    /\ log' = Append(log, Event(term_idx, e, result, origin, pos, n, ins))
                    /\ current_pos' = pos + Len(ins)
                    /\ UNCHANGED term_idx
           ELSE /\ current_pos' = pos + 1
                /\ UNCHANGED <<term_idx, result, origin, replacement_counts, log>>
    /\ UNCHANGED <<pc, text, mappings, all_terms>>
    /\ UNCHANGED non_engine_vars

\* `return result, replacement_counts`
Return ==
    /\ pc = "scan"
    /\ term_idx > Len(all_terms)
    /\ pc' = "done"
    /\ UNCHANGED <<text, mappings, all_terms, term_idx, current_pos, result, origin,
                   replacement_counts, log>>
    /\ UNCHANGED non_engine_vars

\* the `while True:` loop for one term e, from current_pos = cur on: the rewritten text
RECURSIVE scan_term(_, _, _)
scan_term(res, e, cur) ==
    LET pos == Find(res, e.term, cur)
    IN  IF pos = -1
        THEN res
        ELSE IF is_valid_word_match(Window(res, pos, e.term), e.term)
             THEN scan_term(Slice(res, 0, pos) \o ReplacementText(res, pos, e)
                              \o Slice(res, pos + MatchedLen(res, pos, e), Len(res)),
                            e, pos + Len(ReplacementText(res, pos, e)))
             ELSE scan_term(res, e, pos + 1)

\* the `for term_idx, (term, replacement, category) in enumerate(all_terms, 1):` loop
RECURSIVE replace_each(_, _)
replace_each(res, terms) ==
    IF terms = << >>
    THEN res
    ELSE replace_each(IF IsBlank(Head(terms).term)
                      THEN res
                      ELSE scan_term(res, Head(terms), 0),
                      Tail(terms))

\* the text replace_terms(text, mappings) returns
replace_terms(txt, data) == replace_each(txt, SortLongestFirst(extract_mappings(data)))

(***************************************************************************)
(* Regex-based replace_terms (src/replacer/replacenames.py)                *)
(***************************************************************************)
\* \w of a str pattern, on the characters of the model
IsWord(c) == IsAlnum(c) \/ c = "_"

WordAt(s, i) == i >= 0 /\ i < Len(s) /\ IsWord(At(s, i))

\* \b at index i: exactly one of s[i-1], s[i] is a word character
Boundary(s, i) == WordAt(s, i - 1) # WordAt(s, i)

\* length matched at i by \b term (?:'s|s')? \b, the alternatives tried in order; 0 = no match
create_replacement_pattern(s, i, term) ==
    LET n == Len(term)
    IN  IF ~(Boundary(s, i) /\ OccursAt(s, term, i)) THEN 0
        ELSE IF Slice(s, i + n, i + n + 2) = <<"'", "s">> /\ Boundary(s, i + n + 2) THEN n + 2
        ELSE IF Slice(s, i + n, i + n + 2) = <<"s", "'">> /\ Boundary(s, i + n + 2) THEN n + 2
        ELSE IF Boundary(s, i + n) THEN n
        ELSE 0

EndsWith(s, t) == Len(s) >= Len(t) /\ SubSeq(s, Len(s) - Len(t) + 1, Len(s)) = t

\* str.isupper(): some cased character, and every cased character upper case
IsUpperStr(s) ==
    /\ \E i \in 1..Len(s) : IsCased(s[i])
    /\ \A i \in 1..Len(s) : IsCased(s[i]) => Upper(s[i]) = s[i]

UpperStr(s) == [i \in 1..Len(s) |-> Upper(s[i])]

\* matched_text[:-k] for k >= 1
DropLast(s, k) == IF k >= Len(s) THEN << >> ELSE SubSeq(s, 1, Len(s) - k)

replace_match(matched_text, e) ==
    LET possessive == IF EndsWith(matched_text, <<"'", "s">>) THEN <<"'", "s">>
                      ELSE IF EndsWith(matched_text, <<"s", "'">>) THEN <<"s", "'">>
                      ELSE << >>
        leading == IF Len(matched_text) > Len(e.term)
                   THEN DropLast(matched_text, Len(e.term) + Len(possessive))
                   ELSE << >>
        found_text == IF possessive # << >>
                      THEN Slice(matched_text, Len(leading), Len(matched_text) - Len(possessive))
                      ELSE Slice(matched_text, Len(leading), Len(matched_text))
    IN  IF IsUpperStr(found_text)
        THEN leading \o UpperStr(e.replacement) \o possessive
        ELSE leading \o e.replacement \o possessive

\* re.sub(pattern, replace_match, s): non-overlapping matches, left to right from i
RECURSIVE re_sub(_, _, _, _, _)
re_sub(s, org, i, e, k) ==
    IF i >= Len(s) THEN [res |-> << >>, org |-> << >>, evs |-> << >>]
    ELSE LET m == create_replacement_pattern(s, i, e.term)
         IN  IF m = 0
             THEN LET rest == re_sub(s, org, i + 1, e, k)
                  IN  [res |-> <<At(s, i)>> \o rest.res,
                       org |-> <<At(org, i)>> \o rest.org,
                       evs |-> rest.evs]
             ELSE LET ins == replace_match(Slice(s, i, i + m), e)
                      rest == re_sub(s, org, i + m, e, k)
                  IN  [res |-> ins \o rest.res,
                       org |-> Fill(Len(ins), k) \o rest.org,
                       evs |-> <<Event(k, e, s, org, i, m, ins)>> \o rest.evs]

RECURSIVE IncrementBy(_, _, _)
IncrementBy(counts, k, n) ==
    IF n = 0 THEN counts ELSE IncrementBy(Increment(counts, k), k, n - 1)

\* `if not term.strip() or not replacement.strip(): continue`
SkipBlankRegex ==
    /\ pc = "scan"
    /\ term_idx <= Len(all_terms)
    /\ IsBlank(all_terms[term_idx].term) \/ IsBlank(all_terms[term_idx].replacement)
    /\ term_idx' = term_idx + 1
    /\ UNCHANGED <<pc, text, mappings, all_terms, current_pos, result, origin,
                   replacement_counts, log>>
    /\ UNCHANGED non_engine_vars

\* one pass of the `for term, replacement, category in all_terms:` loop
SubTerm ==
    /\ pc = "scan"
    /\ term_idx <= Len(all_terms)
    /\ ~(IsBlank(all_terms[term_idx].term) \/ IsBlank(all_terms[term_idx].replacement))
    /\ LET e == all_terms[term_idx]
           r == re_sub(result, origin, 0, e, term_idx)
       IN  /\ result' = r.res
           /\ origin' = r.org
           /\ log' = log \o r.evs
           /\ replacement_counts' = IncrementBy(replacement_counts, Key(e), Len(r.evs))
    /\ term_idx' = term_idx + 1
    /\ UNCHANGED <<pc, text, mappings, all_terms, current_pos>>
    /\ UNCHANGED non_engine_vars

\* the substitution engine runs on its own: no pseudonymizer process, no files
\* no _chunk_text call is in progress
ChunkerUnused ==
    /\ ck_pc = "idle"
    /\ ck_text = << >>
    /\ chunk_size = 0
    /\ ck_start = 0
    /\ chunk_list = << >>

\* no write of the progress file is in progress
SaveUnused ==
    /\ sv_pc = "idle"
    /\ sv_file = [exists |-> FALSE]
    /\ sv_prev = [exists |-> FALSE]
    /\ sv_data = << >>
    /\ observed = [seen |-> FALSE]

\* no detect_identifiers call is followed on its own
DetectorUnused ==
    /\ dt_pc = "idle"
    /\ response = << >>
    /\ identifiers = << >>
    /\ found_terms = {}
    /\ chunk_failed = FALSE

PfUnused ==
    /\ pf_pc = "idle"
    /\ chunks = << >>
    /\ responses = << >>
    /\ runs = << >>
    /\ resume_from = 0
    /\ chunk_i = 0
    /\ substitutions = << >>
    /\ runtime_substitutions = << >>
    /\ identified_terms = {}
    /\ failed_chunks = {}
    /\ processed_chunks = << >>
    /\ progress_file = [exists |-> FALSE]
    /\ mapping_file = [exists |-> FALSE]
    /\ output_file = [exists |-> FALSE]
    /\ loaded = [exists |-> FALSE]
    /\ terms_order = << >>

Texts == UNION {[1..n -> TextChars] : n \in 0..MaxLen}

InitEngine ==
    /\ pc = "start"
    /\ text \in Texts
    /\ mappings \in {MappingDict(es) : es \in EntrySeqs}
    /\ all_terms = << >>
    /\ term_idx = 0
    /\ current_pos = 0
    /\ result = << >>
    /\ origin = << >>
    /\ replacement_counts = << >>
    /\ log = << >>
    /\ PfUnused
    /\ ChunkerUnused
    /\ SaveUnused
    /\ DetectorUnused

NextFind == Begin \/ SkipBlank \/ ScanStep \/ Return

SpecFind == InitEngine /\ [][NextFind]_vars

NextRegex == Begin \/ SkipBlankRegex \/ SubTerm \/ Return

SpecRegex == InitEngine /\ [][NextRegex]_vars

(***************************************************************************)
(* ContextualPseudonymizer (src/privacyanalyzer-ai.py)                     *)
(***************************************************************************)
\* keys of self.substitutions
Categories == {"names", "places", "contacts", "businesses", "dates", "relationships"}

male_patterns == { <<"b", "e", "n">>, <<"r", "o", "g", "e", "l", "i", "o">>,
                   <<"w", "i", "l", "l">> }

female_patterns == { <<"a", "n", "d", "r", "e", "a">> }

\* self.preserve
preserve == { <<"c", "i", "t", "i", "e", "s">>, <<"s", "t", "a", "t", "e", "s">>,
              <<"c", "o", "u", "n", "t", "r", "i", "e", "s">>,
              <<"m", "o", "n", "t", "h", "s">>,
              <<"d", "a", "y", "s", "_", "o", "f", "_", "w", "e", "e", "k">> }

LowerStr(s) == [k \in 1..Len(s) |-> Lower(s[k])]

DigitOf(d) == IF d = 0 THEN "0" ELSE Digits[d]

\* f"{idx}"
Str(n) == IF n < 10 THEN <<DigitOf(n)>> ELSE <<DigitOf(n \div 10), DigitOf(n % 10)>>

\* f"[{family}{idx}]"
Pseudonym(family, idx) == <<"[">> \o family \o Str(idx) \o <<"]">>

FamilyName == <<"N", "a", "m", "e">>
FamilyMaleName == <<"M", "a", "l", "e", "N", "a", "m", "e">>
FamilyFemaleName == <<"F", "e", "m", "a", "l", "e", "N", "a", "m", "e">>
FamilyPlace == <<"P", "l", "a", "c", "e">>
FamilyContact == <<"C", "o", "n", "t", "a", "c", "t">>
FamilyBusiness == <<"B", "u", "s", "i", "n", "e", "s", "s">>
FamilyRelationship == <<"R", "e", "l", "a", "t", "i", "o", "n", "s", "h", "i", "p">>

\* d[k] = v on a dict
Put(d, k, v) == [x \in DOMAIN d \cup {k} |-> IF x = k THEN v ELSE d[x]]

\* len(self.substitutions[category])
NumIn(subs, category) == Cardinality({p \in DOMAIN subs : p[2] = category})

\* the body of the loop without `if term not in self.substitutions[category]`
MintOneUnguarded(subs, p) ==
    Put(subs, p, Pseudonym(FamilyName, NumIn(subs, p[2]) + 1))

\* the body of the loop with a repeated pair taking up a further slot of its category
MintOneSlotConsuming(subs, p) ==
    IF p \in DOMAIN subs
    THEN Put(subs, <<p[1] \o <<"#">>, p[2]>>, subs[p])
    ELSE Put(subs, p, Pseudonym(FamilyName, NumIn(subs, p[2]) + 1))

\* the body of the loop with the index 1 for every new term
MintOneFirstIndex(subs, p) ==
    IF p \in DOMAIN subs \/ p[2] \notin Categories \ {"dates"}
    THEN subs
    ELSE Put(subs, p, Pseudonym(IF LowerStr(p[1]) \in male_patterns
                                THEN FamilyMaleName
                                ELSE FamilyName, 1))

\* the body of the loop of _generate_substitutions for one (term, category)
MintOne(subs, p) ==
    LET term == p[1]
        category == p[2]
        idx == NumIn(subs, category) + 1
    IN  IF p \in DOMAIN subs THEN subs
        ELSE IF category = "names"
             THEN IF LowerStr(term) \in male_patterns
                  THEN Put(subs, p, Pseudonym(FamilyMaleName, idx))
                  ELSE IF LowerStr(term) \in female_patterns
                  THEN Put(subs, p, Pseudonym(FamilyFemaleName, idx))
                  ELSE Put(subs, p, Pseudonym(FamilyName, idx))
        ELSE IF category = "places" THEN Put(subs, p, Pseudonym(FamilyPlace, idx))
        ELSE IF category = "contacts" THEN Put(subs, p, Pseudonym(FamilyContact, idx))
        ELSE IF category = "businesses" THEN Put(subs, p, Pseudonym(FamilyBusiness, idx))
        ELSE IF category = "relationships"
             THEN Put(subs, p, Pseudonym(FamilyRelationship, idx))
        ELSE subs

\* the loop of _generate_substitutions over the terms in the order the set yields them
RECURSIVE MintAll(_, _)
MintAll(subs, order) ==
    IF order = << >> THEN subs ELSE MintAll(MintOne(subs, Head(order)), Tail(order))

Perms(S) ==
    {f \in [1..Cardinality(S) -> S] : \A x, y \in 1..Cardinality(S) : x # y => f[x] # f[y]}

\* _generate_substitutions: every result the iteration order of the set identified_terms
\* allows; self.substitutions[category] raises KeyError for a category that is no key
generate_substitutions(subs, identified) ==
    IF \E p \in identified : p[2] \notin Categories
    THEN {[ok |-> FALSE]}
    ELSE {[ok |-> TRUE, subs |-> MintAll(subs, o), order |-> o]
            : o \in Perms(identified)}

\* re.escape(term) compiled with re.IGNORECASE matches s at index k
MatchesIgnoreCaseAt(s, t, k) ==
    /\ k + Len(t) <= Len(s)
    /\ \A n \in 1..Len(t) : Lower(s[k + n]) = Lower(t[n])

\* re.sub(re.escape(term), replacement, s, flags=re.IGNORECASE) from index k on
RECURSIVE re_sub_ignorecase(_, _, _, _)
re_sub_ignorecase(term, replacement, s, k) ==
    IF k >= Len(s) THEN << >>
    ELSE IF MatchesIgnoreCaseAt(s, term, k)
         THEN replacement \o re_sub_ignorecase(term, replacement, s, k + Len(term))
         ELSE <<At(s, k)>> \o re_sub_ignorecase(term, replacement, s, k + 1)

\* `term in processed_text`
Contains(s, t) == Find(s, t, 0) # -1

\* get_substitution(term, category, chunk); llm is what the model would answer if asked
get_substitution(subs, rts, p, llm) ==
    IF p \in DOMAIN subs THEN [value |-> subs[p], subs |-> subs, rts |-> rts]
    ELSE IF p[1] \in DOMAIN rts THEN [value |-> rts[p[1]], subs |-> subs, rts |-> rts]
    ELSE [value |-> llm, subs |-> Put(subs, p, llm), rts |-> Put(rts, p[1], llm)]

\* the `for term, category in sorted_terms:` loop over one chunk
RECURSIVE substitute_chunk(_, _, _, _, _)
substitute_chunk(processed_text, sorted_terms, subs, rts, llm) ==
    IF sorted_terms = << >> THEN [text |-> processed_text, subs |-> subs, rts |-> rts]
    ELSE LET p == Head(sorted_terms)
         IN  IF Contains(processed_text, p[1])
             THEN LET g == get_substitution(subs, rts, p, llm[p])
                  IN  substitute_chunk(re_sub_ignorecase(p[1], g.value, processed_text, 0),
                                       Tail(sorted_terms), g.subs, g.rts, llm)
             ELSE substitute_chunk(processed_text, Tail(sorted_terms), subs, rts, llm)

IndexIn(order, x) == CHOOSE k \in 1..Len(order) : order[k] = x

\* sorted(self.identified_terms, key=len(term), reverse=True), order being the order the
\* set yields its members: the sort is stable
SortedTerms(order) ==
    CHOOSE s \in Perms({order[k] : k \in 1..Len(order)}) :
        \A x, y \in 1..Len(s) :
            x < y => \/ Len(s[x][1]) > Len(s[y][1])
                     \/ /\ Len(s[x][1]) = Len(s[y][1])
                        /\ IndexIn(order, s[x]) < IndexIn(order, s[y])

\* what the language model may answer to generate_contextual_pseudonym (after strip())
LLMAnswers == { << >>, <<"x">> }

RECURSIVE Concat(_)
Concat(ss) == IF ss = << >> THEN << >> ELSE Head(ss) \o Concat(Tail(ss))

NoFile == [exists |-> FALSE]

\* a checkpoint that is marked completed whoever writes it
ProgressDataAlwaysCompleted(last_chunk, status) ==
    [exists |-> TRUE,
     identified_terms |-> identified_terms,
     substitutions |-> substitutions,
     runtime_substitutions |-> runtime_substitutions,
     last_processed_chunk |-> last_chunk,
     status |-> "completed"]

\* the dict _save_progress / _save_final_results dump
ProgressData(last_chunk, status) ==
    [exists |-> TRUE,
     identified_terms |-> identified_terms,
     substitutions |-> substitutions,
     runtime_substitutions |-> runtime_substitutions,
     last_processed_chunk |-> last_chunk,
     status |-> status]

\* the items the loop over the detector's result adds
Added(r) == {p \in r.terms : p[1] # << >> /\ LowerStr(p[1]) \notin preserve}

EndRun(how) == [runs EXCEPT ![Len(runs)].end = how]

\* `i % 5 == 0 or i == len(chunks) - 1`
SavesProgress(k) == k % 5 = 0 \/ k = Len(chunks) - 1

\* process_file up to the detection loop: the constructor's empty state,
\* _load_existing_substitutions, _load_progress when resume_from > 0, the range check
StartRun(r) ==
    /\ pf_pc \in {"idle", "exited", "completed"}
    /\ Len(runs) < MaxRuns
    /\ runs' = Append(runs, [resume_from |-> r,
                             end |-> IF r > 0 /\ r >= Len(chunks)
                                     THEN "out_of_range" ELSE "running"])
    /\ resume_from' = r
    /\ substitutions' =
         IF mapping_file.exists
         THEN [p \in {q \in DOMAIN mapping_file.mapping : q[2] \in Categories}
                 |-> mapping_file.mapping[p]]
         ELSE << >>
    /\ IF r > 0 /\ progress_file.exists
       THEN /\ identified_terms' = progress_file.identified_terms
            /\ runtime_substitutions' = progress_file.runtime_substitutions
            /\ loaded' = progress_file
       ELSE /\ identified_terms' = {}
            /\ runtime_substitutions' = << >>
            /\ loaded' = NoFile
    /\ failed_chunks' = {}
    /\ processed_chunks' = << >>
    /\ terms_order' = << >>
    /\ chunk_i' = r
    /\ IF r > 0 /\ r >= Len(chunks)
       THEN pf_pc' = "exited"
       ELSE pf_pc' = IF r < Len(chunks) THEN "detect" ELSE "final_generate"
    /\ UNCHANGED <<chunks, responses, progress_file, mapping_file, output_file>>
    /\ UNCHANGED non_pf_vars

NextChunk ==
    /\ chunk_i' = chunk_i + 1
    /\ pf_pc' = IF chunk_i + 1 < Len(chunks) THEN "detect" ELSE "final_generate"

\* detect_identifiers returned ({} after an error of its own) and the result was traversed
Detect ==
    /\ pf_pc = "detect"
    /\ responses[chunk_i + 1].kind \in {"ok", "error"}
    /\ identified_terms' =
         IF responses[chunk_i + 1].kind = "ok"
         THEN identified_terms \cup Added(responses[chunk_i + 1])
         ELSE identified_terms
    /\ IF SavesProgress(chunk_i)
       THEN pf_pc' = "generate" /\ UNCHANGED chunk_i
       ELSE NextChunk
    /\ UNCHANGED <<chunks, responses, runs, resume_from, substitutions,
                   runtime_substitutions, failed_chunks, processed_chunks,
                   progress_file, mapping_file, output_file, loaded, terms_order>>
    /\ UNCHANGED non_pf_vars

\* traversing the result raised: `failed_chunks.append(...)`, `continue`
DetectFailed ==
    /\ pf_pc = "detect"
    /\ responses[chunk_i + 1].kind = "badtype"
    /\ identified_terms' = identified_terms \cup Added(responses[chunk_i + 1])
    /\ failed_chunks' = failed_chunks \cup {chunk_i}
    /\ NextChunk
    /\ UNCHANGED <<chunks, responses, runs, resume_from, substitutions,
                   runtime_substitutions, processed_chunks,
                   progress_file, mapping_file, output_file, loaded, terms_order>>
    /\ UNCHANGED non_pf_vars

\* `self._generate_substitutions()` before the periodic save
GenerateSubs ==
    /\ pf_pc = "generate"
    /\ \E g \in generate_substitutions(substitutions, identified_terms) :
         /\ g.ok
         /\ substitutions' = g.subs
    /\ pf_pc' = "save"
    /\ UNCHANGED <<chunks, responses, runs, resume_from, chunk_i,
                   runtime_substitutions, identified_terms, failed_chunks,
                   processed_chunks, progress_file, mapping_file, output_file, loaded, terms_order>>
    /\ UNCHANGED non_pf_vars

\* KeyError in _generate_substitutions: `except Exception` of process_file, sys.exit(1)
GenerateRaises ==
    /\ pf_pc \in {"generate", "final_generate"}
    /\ \E g \in generate_substitutions(substitutions, identified_terms) : ~g.ok
    /\ pf_pc' = "exited"
    /\ runs' = EndRun("error")
    /\ UNCHANGED <<chunks, responses, resume_from, chunk_i, substitutions,
                   runtime_substitutions, identified_terms, failed_chunks,
                   processed_chunks, progress_file, mapping_file, output_file, loaded, terms_order>>
    /\ UNCHANGED non_pf_vars

\* `self._save_progress(self.output_dir, input_path.stem, i, input_path.name)`
SaveProgress ==
    /\ pf_pc = "save"
    /\ progress_file' = ProgressData(chunk_i, "in_progress")
    /\ NextChunk
    /\ UNCHANGED <<chunks, responses, runs, resume_from, substitutions,
                   runtime_substitutions, identified_terms, failed_chunks,
                   processed_chunks, mapping_file, output_file, loaded, terms_order>>
    /\ UNCHANGED non_pf_vars

\* KeyboardInterrupt inside the detection loop: save progress with the current i, exit
Interrupt ==
    /\ pf_pc \in {"detect", "generate", "save"}
    /\ progress_file' = ProgressData(chunk_i, "in_progress")
    /\ pf_pc' = "exited"
    /\ runs' = EndRun("interrupted")
    /\ UNCHANGED <<chunks, responses, resume_from, chunk_i, substitutions,
                   runtime_substitutions, identified_terms, failed_chunks,
                   processed_chunks, mapping_file, output_file, loaded, terms_order>>
    /\ UNCHANGED non_pf_vars

\* after the loop: identified_terms.update(all_terms) adds nothing (every term was added
\* to both sets), then `self._generate_substitutions()`
FinalGenerate ==
    /\ pf_pc = "final_generate"
    /\ \E g \in generate_substitutions(substitutions, identified_terms) :
         /\ g.ok
         /\ substitutions' = g.subs
         /\ terms_order' = g.order
    /\ processed_chunks' = << >>
    /\ pf_pc' = IF Len(chunks) = 0 THEN "save_final" ELSE "substitute"
    /\ UNCHANGED <<chunks, responses, runs, resume_from, chunk_i,
                   runtime_substitutions, identified_terms, failed_chunks,
                   progress_file, mapping_file, output_file, loaded>>
    /\ UNCHANGED non_pf_vars

\* one pass of `for i, chunk in enumerate(chunks)` of the substitution phase
SubstituteChunk ==
    /\ pf_pc = "substitute"
    /\ \E llm \in [{p \in identified_terms : p \notin DOMAIN substitutions} -> LLMAnswers] :
         LET r == substitute_chunk(chunks[Len(processed_chunks) + 1],
                                   SortedTerms(terms_order),
                                   substitutions, runtime_substitutions, llm)
         IN  /\ processed_chunks' = Append(processed_chunks, r.text)
             /\ substitutions' = r.subs
             /\ runtime_substitutions' = r.rts
    /\ pf_pc' = IF Len(processed_chunks) + 1 = Len(chunks) THEN "save_final" ELSE "substitute"
    /\ UNCHANGED <<chunks, responses, runs, resume_from, chunk_i, identified_terms,
                   failed_chunks, progress_file, mapping_file, output_file, loaded, terms_order>>
    /\ UNCHANGED non_pf_vars

\* _save_final_results(output_dir, processed_chunks, stem, resume_from > 0)
SaveFinal ==
    /\ pf_pc = "save_final"
    /\ output_file' =
         IF resume_from > 0 /\ output_file.exists
         THEN [exists |-> TRUE, content |-> output_file.content \o Concat(processed_chunks)]
         ELSE [exists |-> TRUE, content |-> Concat(processed_chunks)]
    /\ mapping_file' = [exists |-> TRUE, mapping |-> substitutions]
    /\ progress_file' = ProgressData(Len(processed_chunks) - 1, "completed")
    /\ pf_pc' = "completed"
    /\ runs' = EndRun("completed")
    /\ UNCHANGED <<chunks, responses, resume_from, chunk_i, substitutions,
                   runtime_substitutions, identified_terms, failed_chunks,
                   processed_chunks, loaded, terms_order>>
    /\ UNCHANGED non_pf_vars

\* KeyboardInterrupt after the detection loop: nothing catches it before main(), which exits
InterruptLate ==
    /\ pf_pc \in {"final_generate", "substitute", "save_final"}
    /\ pf_pc' = "exited"
    /\ runs' = EndRun("killed")
    /\ UNCHANGED <<chunks, responses, resume_from, chunk_i, substitutions,
                   runtime_substitutions, identified_terms, failed_chunks,
                   processed_chunks, progress_file, mapping_file, output_file, loaded, terms_order>>
    /\ UNCHANGED non_pf_vars

(***************************************************************************)
(* detect_identifiers, and the traversal of its result in process_file     *)
(***************************************************************************)
\* a dict made by json.loads: the sequence of its <<key, value>> pairs, in insertion order
Keys(obj) == {obj[k][1] : k \in DOMAIN obj}

Has(obj, key) == key \in Keys(obj)

Get(obj, key) == obj[CHOOSE k \in DOMAIN obj : obj[k][1] = key][2]

\* `obj[key] = value`
SetItem(obj, key, value) ==
    IF Has(obj, key)
    THEN [k \in DOMAIN obj |-> IF obj[k][1] = key THEN <<key, value>> ELSE obj[k]]
    ELSE Append(obj, <<key, value>>)

\* the JSON values told apart: the value of a category is a dict or not (a list, a
\* string, a number, null); the value of a subcategory is a list or something that
\* cannot be iterated (a number, null); an item is a string or a truthy non-string
Dict(pairs) == [dict |-> TRUE, pairs |-> pairs]

NotDict == [dict |-> FALSE]

List(items) == [list |-> TRUE, items |-> items]

NotList == [list |-> FALSE]

JsonString(s) == [str |-> TRUE, s |-> s]

NotString == [str |-> FALSE]

\* ollama_client.generate returned a text whose part from the first "{" to the last "}"
\* json.loads turns into the dict `pairs`
Json(pairs) == [kind |-> "json", value |-> pairs]

expected_categories ==
    << <<"names", <<"names", "role_identifiers">> >>,
       <<"places", <<"addresses", "landmarks", "neighborhoods">> >>,
       <<"contacts", <<"phones", "emails", "social_media">> >>,
       <<"businesses", <<"specific_businesses", "institutions">> >> >>

\* `for subcategory in subcategories: if subcategory not in result[category]:
\* result[category][subcategory] = []`
RECURSIVE FillSubcategories(_, _)
FillSubcategories(pairs, subcategories) ==
    IF subcategories = << >>
    THEN pairs
    ELSE FillSubcategories(IF Has(pairs, Head(subcategories))
                           THEN pairs
                           ELSE SetItem(pairs, Head(subcategories), List(<< >>)),
                           Tail(subcategories))

\* `for category, subcategories in expected_categories.items()`: a missing category
\* becomes {}, then its missing subcategories become []; a category that is no dict
\* raises here (TypeError) or in the loop that prints the categories (AttributeError)
RECURSIVE Normalize(_, _)
Normalize(res, expected) ==
    IF expected = << >>
    THEN [raised |-> FALSE, result |-> res]
    ELSE LET category == Head(expected)[1]
             subcategories == Head(expected)[2]
             with_category == IF Has(res, category)
                              THEN res
                              ELSE SetItem(res, category, Dict(<< >>))
             value == Get(with_category, category)
         IN  IF ~value.dict
             THEN [raised |-> TRUE, result |-> << >>]
             ELSE Normalize(SetItem(with_category, category,
                                    Dict(FillSubcategories(value.pairs, subcategories))),
                            Tail(expected))

\* detect_identifiers: {} (the empty dict) when generate raised or timed out, when the
\* text holds no JSON, when json.loads failed, or when the processing of the parsed
\* dict raised; the normalised dict otherwise
detect_identifiers(resp) ==
    IF resp.kind # "json"
    THEN << >>
    ELSE LET n == Normalize(resp.value, expected_categories)
         IN  IF n.raised
             THEN << >>
             ELSE IF \E k \in DOMAIN n.result : ~n.result[k][2].dict
                  THEN << >>
                  ELSE n.result

\* the outcome of a part of the traversal: whether it raised, and the pairs added before
NothingAdded == [raised |-> FALSE, terms |-> {}]

Raised == [raised |-> TRUE, terms |-> {}]

Then(a, b) ==
    IF a.raised
    THEN a
    ELSE [raised |-> b.raised, terms |-> a.terms \cup b.terms]

\* `if item and not any(item.lower() in self.preserve for p in self.preserve):
\* all_terms.add((item, category))`
TraverseItem(item, category) ==
    IF ~item.str
    THEN Raised
    ELSE IF item.s # << >> /\ LowerStr(item.s) \notin preserve
         THEN [raised |-> FALSE, terms |-> {<<item.s, category>>}]
         ELSE NothingAdded

RECURSIVE TraverseItems(_, _)
TraverseItems(items, category) ==
    IF items = << >>
    THEN NothingAdded
    ELSE Then(TraverseItem(Head(items), category), TraverseItems(Tail(items), category))

\* `for subcategory, items in subcategories.items(): for item in items:`
RECURSIVE TraverseSubcategories(_, _)
TraverseSubcategories(pairs, category) ==
    IF pairs = << >>
    THEN NothingAdded
    ELSE Then(IF Head(pairs)[2].list
              THEN TraverseItems(Head(pairs)[2].items, category)
              ELSE Raised,
              TraverseSubcategories(Tail(pairs), category))

\* `for category, subcategories in identifiers.items():`
RECURSIVE traverse(_)
traverse(res) ==
    IF res = << >>
    THEN NothingAdded
    ELSE Then(TraverseSubcategories(Head(res)[2].pairs, Head(res)[1]),
              traverse(Tail(res)))

\* `identifiers = self.detect_identifiers(chunk, i)`
CallDetector ==
    /\ dt_pc = "call"
    /\ identifiers' = detect_identifiers(response)
    /\ dt_pc' = "returned"
    /\ UNCHANGED <<response, found_terms, chunk_failed>>
    /\ UNCHANGED non_detector_vars

\* `if identifiers:` and the loops over it; `except Exception: failed_chunks.append(...)`
TraverseResult ==
    /\ dt_pc = "returned"
    /\ identifiers # << >>
    /\ found_terms' = traverse(identifiers).terms
    /\ chunk_failed' = traverse(identifiers).raised
    /\ dt_pc' = "done"
    /\ UNCHANGED <<response, identifiers>>
    /\ UNCHANGED non_detector_vars

\* `if identifiers:` is false for {}: the chunk is passed over
SkipResult ==
    /\ dt_pc = "returned"
    /\ identifiers = << >>
    /\ dt_pc' = "done"
    /\ UNCHANGED <<response, identifiers, found_terms, chunk_failed>>
    /\ UNCHANGED non_detector_vars

(***************************************************************************)
(* Inputs of process_file                                                  *)
(***************************************************************************)
ChunkTexts == { <<"a">>, <<"A", " ", "B", "e", "n">> }

\* what the detection loop gets from the detector for a chunk: "error" when
\* detect_identifiers returned {}, "badtype" when the traversal of its result raised,
\* "ok" otherwise; terms are the pairs the traversal added
Response(kind, terms) == [kind |-> kind, terms |-> terms]

Outcome(resp) ==
    LET r == detect_identifiers(resp)
        t == traverse(r)
    IN  IF r = << >>
        THEN Response("error", {})
        ELSE Response(IF t.raised THEN "badtype" ELSE "ok", t.terms)

\* {"<category>": {"<subcategory>": [<items>]}}
OneList(category, subcategory, items) ==
    Json(<< <<category, Dict(<< <<subcategory, List(items)>> >>)>> >>)

\* the detector's behaviours followed in process_file
RunResponses ==
    { [kind |-> "raises"],
      [kind |-> "text"],
      Json(<< <<"names", NotDict>> >>),
      OneList("names", "names", <<JsonString(<<"a">>)>>),
      OneList("names", "names", <<JsonString(<<"B", "e", "n">>)>>),
      OneList("dates", "dates", <<JsonString(<<"a">>)>>),
      OneList("other", "names", <<JsonString(<<"a">>)>>),
      Json(<< <<"names", Dict(<< <<"names", NotList>> >>)>> >>),
      OneList("names", "names", <<NotString>>) }

Responses == {Outcome(resp) : resp \in RunResponses}

\* no replace_terms call is in progress
EngineUnused ==
    /\ pc = "idle"
    /\ text = << >>
    /\ mappings = << >>
    /\ all_terms = << >>
    /\ term_idx = 0
    /\ current_pos = 0
    /\ result = << >>
    /\ origin = << >>
    /\ replacement_counts = << >>
    /\ log = << >>

InitRun ==
    /\ EngineUnused
    /\ ChunkerUnused
    /\ SaveUnused
    /\ DetectorUnused
    /\ \E n \in 1..MaxChunks :
         /\ chunks \in [1..n -> ChunkTexts]
         /\ responses \in [1..n -> Responses]
    /\ pf_pc = "idle"
    /\ runs = << >>
    /\ resume_from = 0
    /\ chunk_i = 0
    /\ substitutions = << >>
    /\ runtime_substitutions = << >>
    /\ identified_terms = {}
    /\ failed_chunks = {}
    /\ processed_chunks = << >>
    /\ progress_file = NoFile
    /\ mapping_file = NoFile
    /\ output_file = NoFile
    /\ loaded = NoFile
    /\ terms_order = << >>

NextRun ==
    \/ \E r \in 0..MaxChunks : r <= Len(chunks) /\ StartRun(r)
    \/ Detect
    \/ DetectFailed
    \/ GenerateSubs
    \/ GenerateRaises
    \/ SaveProgress
    \/ Interrupt
    \/ FinalGenerate
    \/ SubstituteChunk
    \/ SaveFinal
    \/ InterruptLate

SpecRun == InitRun /\ [][NextRun]_vars

(***************************************************************************)
(* Inputs of detect_identifiers                                            *)
(***************************************************************************)
\* the values the detector's JSON gives to a subcategory and to a category
SubValues ==
    { List(<< >>), List(<<JsonString(<<"a">>)>>), List(<<JsonString(<< >>)>>),
      List(<<JsonString(<<"m", "o", "n", "t", "h", "s">>)>>),
      List(<<JsonString(<<"a">>), NotString>>), NotList }

CategoryValues ==
    {Dict(<< >>), NotDict}
      \cup {Dict(<< <<sub, v>> >>) : sub \in {"names", "landmarks"}, v \in SubValues}

CategoryKeys == {"names", "places", "other"}

\* the dicts of at most MaxCategories categories
JsonObjects ==
    UNION {{obj \in [1..n -> CategoryKeys \X CategoryValues] :
              \A j, k \in 1..n : obj[j][1] = obj[k][1] => j = k}
             : n \in 0..MaxCategories}

DetectorResponses ==
    {[kind |-> "raises"], [kind |-> "text"]} \cup {Json(obj) : obj \in JsonObjects}

InitDetect ==
    /\ EngineUnused
    /\ PfUnused
    /\ ChunkerUnused
    /\ SaveUnused
    /\ dt_pc = "call"
    /\ response \in DetectorResponses
    /\ identifiers = << >>
    /\ found_terms = {}
    /\ chunk_failed = FALSE

NextDetect == CallDetector \/ TraverseResult \/ SkipResult

SpecDetect == InitDetect /\ [][NextDetect]_vars

(***************************************************************************)
(* _chunk_text (src/privacyanalyzer-ai.py)                                 *)
(***************************************************************************)
\* the characters of the texts given to _chunk_text
ChunkChars == {"a", ".", " "}

\* the for loop looks back over at most this many characters
Lookback == 200

\* a 0-based index of a slice, negative ones counting from the end, clamped
SliceIndex(s, k) ==
    IF k < 0
    THEN (IF k + Len(s) < 0 THEN 0 ELSE k + Len(s))
    ELSE (IF k > Len(s) THEN Len(s) ELSE k)

\* text[a:b] for any integers a, b
PySlice(s, a, b) ==
    IF SliceIndex(s, a) >= SliceIndex(s, b) THEN << >>
    ELSE SubSeq(s, SliceIndex(s, a) + 1, SliceIndex(s, b))

\* the chunk with its surrounding whitespace stripped
chunk_of_stripped(s, a, b) ==
    LET c == PySlice(s, a, b)
        keep == {k \in 1..Len(c) : ~IsSpace(c[k])}
    IN  IF keep = {} THEN << >>
        ELSE SubSeq(c, Min(keep), CHOOSE k \in keep : \A m \in keep : m <= k)

\* `chunk = text[start:end]`
chunk_of(s, a, b) == PySlice(s, a, b)

\* `i < total_length and text[i-1] in '.!?' and (text[i].isspace() or text[i] == '\n')`
IsSentenceBreak(s, k) ==
    /\ k < Len(s)
    /\ k >= 1
    /\ At(s, k - 1) \in {".", "!", "?"}
    /\ IsSpace(At(s, k))

\* the hard offset, with no look back for the end of a sentence
chunk_end_hard(s, from, size) ==
    IF from + size < Len(s) THEN from + size ELSE Len(s)

\* `end` after `if end < total_length: for i in range(end, max(start, end - 200), -1)`
chunk_end(s, from, size) ==
    LET total_length == Len(s)
        end == IF from + size < total_length THEN from + size ELSE total_length
        low == IF from > end - Lookback THEN from ELSE end - Lookback
        breaks == {k \in (low + 1)..end : IsSentenceBreak(s, k)}
    IN  IF end < total_length /\ breaks # {}
        THEN CHOOSE k \in breaks : \A m \in breaks : m <= k
        ELSE end

\* one pass of `while start < total_length:`
ChunkStep ==
    /\ ck_pc = "loop"
    /\ ck_start < Len(ck_text)
    /\ Len(chunk_list) < MaxChunkSteps
    /\ LET end == chunk_end(ck_text, ck_start, chunk_size)
       IN  /\ chunk_list' = Append(chunk_list, chunk_of(ck_text, ck_start, end))
           /\ ck_start' = end
    /\ UNCHANGED <<ck_pc, ck_text, chunk_size>>
    /\ UNCHANGED non_chunker_vars

\* `return chunks`
ChunkReturn ==
    /\ ck_pc = "loop"
    /\ ck_start >= Len(ck_text)
    /\ ck_pc' = "done"
    /\ UNCHANGED <<ck_text, chunk_size, ck_start, chunk_list>>
    /\ UNCHANGED non_chunker_vars

ChunkTextInputs == UNION {[1..n -> ChunkChars] : n \in 0..MaxText}

ChunkSizes == (0 - 1)..MaxChunkSize

InitChunk ==
    /\ EngineUnused
    /\ PfUnused
    /\ SaveUnused
    /\ DetectorUnused
    /\ ck_pc = "loop"
    /\ ck_text \in ChunkTextInputs
    /\ chunk_size \in ChunkSizes
    /\ ck_start = 0
    /\ chunk_list = << >>

NextChunkText == ChunkStep \/ ChunkReturn

SpecChunk == InitChunk /\ [][NextChunkText]_vars

(***************************************************************************)
(* Writing the progress file: `with open(progress_file, 'w') as f:          *)
(* json.dump(progress_data, f, indent=2)` of _save_progress and of         *)
(* _save_final_results                                                     *)
(***************************************************************************)
\* json.dump: the pieces written to the file, in order, one per key of progress_data
Serialize(d) ==
    << <<"{">>,
       <<"identified_terms", d.identified_terms>>,
       <<"substitutions", d.substitutions>>,
       <<"runtime_substitutions", d.runtime_substitutions>>,
       <<"last_processed_chunk", d.last_processed_chunk>>,
       <<"status", d.status>>,
       <<"}">> >>

\* the file that holds the whole of checkpoint d
FileOf(d) == [exists |-> TRUE, pieces |-> Serialize(d)]

\* the checkpoints written in the model
CheckpointData ==
    {[identified_terms |-> DOMAIN subs,
      substitutions |-> subs,
      runtime_substitutions |-> << >>,
      last_processed_chunk |-> n,
      status |-> st]
       : subs \in {<< >>, (<<<<"a">>, "names">> :> Pseudonym(FamilyName, 1))},
         n \in 0..(MaxChunks - 1),
         st \in {"in_progress", "completed"}}

\* `open(progress_file, 'w')`: the file is created or truncated
SaveOpen ==
    /\ sv_pc = "start"
    /\ sv_file' = [exists |-> TRUE, pieces |-> << >>]
    /\ sv_pc' = "open"
    /\ UNCHANGED <<sv_prev, sv_data, observed>>
    /\ UNCHANGED non_save_vars

\* json.dump writes the next piece and it reaches the file
SaveWrite ==
    /\ sv_pc = "open"
    /\ Len(sv_file.pieces) < Len(Serialize(sv_data))
    /\ sv_file' = [sv_file EXCEPT
                     !.pieces = Append(@, Serialize(sv_data)[Len(sv_file.pieces) + 1])]
    /\ UNCHANGED <<sv_pc, sv_prev, sv_data, observed>>
    /\ UNCHANGED non_save_vars

\* the end of the `with` block
SaveClose ==
    /\ sv_pc = "open"
    /\ Len(sv_file.pieces) = Len(Serialize(sv_data))
    /\ sv_pc' = "closed"
    /\ UNCHANGED <<sv_file, sv_prev, sv_data, observed>>
    /\ UNCHANGED non_save_vars

\* a reader opens the file, or the process dies here and the file is looked at afterwards
Observe ==
    /\ sv_pc \in {"start", "open", "closed"}
    /\ ~observed.seen
    /\ observed' = [seen |-> TRUE, file |-> sv_file]
    /\ UNCHANGED <<sv_pc, sv_file, sv_prev, sv_data>>
    /\ UNCHANGED non_save_vars

InitSave ==
    /\ EngineUnused
    /\ PfUnused
    /\ ChunkerUnused
    /\ DetectorUnused
    /\ sv_pc = "start"
    /\ sv_data \in CheckpointData
    /\ sv_prev \in {[exists |-> FALSE]} \cup {FileOf(d) : d \in CheckpointData}
    /\ sv_file = sv_prev
    /\ observed = [seen |-> FALSE]

NextSave == SaveOpen \/ SaveWrite \/ SaveClose \/ Observe

SpecSave == InitSave /\ [][NextSave]_vars

(***************************************************************************)
(* Statistics report (write_stats): one line per key of replacement_counts *)
(***************************************************************************)
write_stats(counts) ==
    { [term |-> k[1], replacement |-> k[2], category |-> k[3],
       line |-> IF counts[k] = 0 THEN "NOT FOUND" ELSE "replacements", count |-> counts[k]]
      : k \in DOMAIN counts }

(***************************************************************************)
(* Properties of the substitution engine                                   *)
(***************************************************************************)
Events == {log[k] : k \in 1..Len(log)}

\* the term occurs at i in s with a non-alphanumeric character or a text edge on both sides
ValidAt(s, t, i) ==
    /\ OccursAt(s, t, i)
    /\ (i = 0 \/ ~IsAlnum(At(s, i - 1)))
    /\ (i + Len(t) = Len(s) \/ ~IsAlnum(At(s, i + Len(t))))

\* C1: every replaced span is preceded by a non-alphanumeric character or the start of
\* the text, and its term is followed by a non-alphanumeric character or the end of the
\* text: no occurrence inside a longer alphanumeric word is replaced.
C1_ReplacedSpansAreWordBounded ==
    \A ev \in Events :
        /\ (ev.pos = 0 \/ ~IsAlnum(At(ev.pre, ev.pos - 1)))
        /\ (ev.pos + Len(ev.term) = Len(ev.pre) \/ ~IsAlnum(At(ev.pre, ev.pos + Len(ev.term))))

NumEvents(k) == Cardinality({j \in 1..Len(log) : Key(log[j]) = k})

\* C2: matching is case-sensitive and exact: every replaced span starts with the
\* registered term character for character, so an occurrence differing in letter case
\* is neither replaced nor counted (each count is the number of exact spans replaced).
C2_MatchesAreExactAndCaseSensitive ==
    /\ \A ev \in Events : Slice(ev.pre, ev.pos, ev.pos + Len(ev.term)) = ev.term
    /\ \A k \in DOMAIN replacement_counts : replacement_counts[k] = NumEvents(k)
    /\ \A j \in 1..Len(result) :
          origin[j] < 0 => result[j] = text[-origin[j]]

C2_Witness ==
    /\ pc = "done"
    /\ text = <<"A", " ", "a">>
    /\ result = <<"A", " ", "[", "1", "]">>
    /\ replacement_counts = (<<<<"a">>, <<"[", "1", "]">>, "names">> :> 1)

\* the input characters i+1 .. i+n, as origins
InputSpan(i, n) == [j \in 1..n |-> -(i + j)]

Overlap(i, n, j, m) == i < j + m /\ j < i + n

\* C3: with a term S registered that is a substring of a registered term L, every valid
\* occurrence of L in the input (overlapping no other valid occurrence of L) is replaced
\* whole by L's pseudonym, and no replacement of S is made from inside such an occurrence.
C3_LongerTermConsumedWhole ==
    pc = "done" =>
      \A x, y \in 1..Len(all_terms) :
        LET L == all_terms[x].term
            S == all_terms[y].term
        IN  (~IsBlank(S) /\ Len(S) < Len(L) /\ (\E d \in 0..Len(L) : OccursAt(L, S, d))) =>
              \A i \in 0..Len(text) :
                (ValidAt(text, L, i)
                   /\ \A j \in 0..Len(text) :
                        (j # i /\ ValidAt(text, L, j)) => ~Overlap(i, Len(L), j, Len(L)))
                => /\ \E ev \in Events :
                        /\ ev.term = L
                        /\ ev.ins = ReplacementText(text, i, all_terms[x])
                        /\ Slice(ev.span, 0, Len(L)) = InputSpan(i, Len(L))
                   /\ ~\E ev \in Events :
                        /\ ev.term = S
                        /\ \E q \in 1..Len(ev.span) :
                             -ev.span[q] \in (i + 1)..(i + Len(L))

(***************************************************************************)
(* Properties of process_file                                              *)
(***************************************************************************)
\* C4: within one invocation of process_file, a (term, category) pair that holds a
\* pseudonym in self.substitutions holds the same pseudonym after every later step
\* (detection, _generate_substitutions, checkpoints, get_substitution, the final save).
C4_AssignedPseudonymNeverChanges ==
    [][Len(runs') = Len(runs) =>
         \A p \in DOMAIN substitutions :
            p \in DOMAIN substitutions' /\ substitutions'[p] = substitutions[p]]_vars

\* a completed first invocation that minted at two different checkpoints
C4_Witness ==
    /\ pf_pc = "completed"
    /\ Len(runs) = 1
    /\ Len(chunks) = 2
    /\ Cardinality(DOMAIN substitutions) = 2
    /\ \E p \in DOMAIN progress_file.substitutions :
          /\ responses[1].terms = {p}
          /\ responses[2].terms # {p}
          /\ responses[2].terms # {}
          /\ mapping_file.mapping[p] = Pseudonym(FamilyName, 1)

\* the outcomes of the detection phase of one uninterrupted invocation from chunk k on
RECURSIVE DetectionOutcomes(_, _, _)
DetectionOutcomes(k, identified, subs) ==
    IF k = Len(chunks)
    THEN {[identified |-> identified, subs |-> g.subs, order |-> g.order]
            : g \in {h \in generate_substitutions(subs, identified) : h.ok}}
    ELSE LET r == responses[k + 1]
             found == IF r.kind = "error" THEN identified ELSE identified \cup Added(r)
         IN  IF r.kind # "badtype" /\ SavesProgress(k)
             THEN UNION {DetectionOutcomes(k + 1, found, g.subs)
                           : g \in {h \in generate_substitutions(subs, found) : h.ok}}
             ELSE DetectionOutcomes(k + 1, found, subs)

\* the outcomes of the substitution phase from chunk k on
RECURSIVE SubstitutionOutcomes(_, _, _, _, _)
SubstitutionOutcomes(k, done, order, subs, rts) ==
    IF k = Len(chunks)
    THEN {[out |-> Concat(done), map |-> subs]}
    ELSE UNION {
           LET r == substitute_chunk(chunks[k + 1], SortedTerms(order), subs, rts, llm)
           IN  SubstitutionOutcomes(k + 1, Append(done, r.text), order, r.subs, r.rts)
           : llm \in [{order[n] : n \in 1..Len(order)} \ DOMAIN subs -> LLMAnswers]}

\* the redacted text and the mapping an uninterrupted invocation on an empty output
\* directory can end with, for the chunks and the detector responses of this behaviour
UninterruptedOutcomes ==
    UNION {SubstitutionOutcomes(0, << >>, d.order, d.subs, << >>)
             : d \in DetectionOutcomes(0, {}, << >>)}

\* C5: a first invocation interrupted in the detection phase, followed by an invocation
\* resumed from the chunk index the checkpoint records and run to completion, leaves the
\* redacted text and the mapping that an uninterrupted invocation can leave.
C5_ResumedRunEqualsUninterruptedRun ==
    (/\ pf_pc = "completed"
     /\ Len(runs) = 2
     /\ runs[1] = [resume_from |-> 0, end |-> "interrupted"]
     /\ loaded.exists
     /\ resume_from > 0
     /\ resume_from = loaded.last_processed_chunk)
    => [out |-> output_file.content, map |-> mapping_file.mapping] \in UninterruptedOutcomes

\* C6: in an invocation that loaded a checkpoint, a pair that had a pseudonym in the
\* checkpoint never has another pseudonym in self.substitutions.
C6_CheckpointAssignmentsRestored ==
    (loaded.exists /\ pf_pc # "idle")
    => \A p \in DOMAIN loaded.substitutions :
          p \in DOMAIN substitutions => substitutions[p] = loaded.substitutions[p]

C8_PluralPossessiveNeverMatched ==
    \A ev \in Events :
        Slice(ev.pre, ev.pos + Len(ev.term), ev.pos + Len(ev.term) + 2) # <<"s", "'">>

\* C9: text inserted as a pseudonym is never matched and replaced for a later term: no
\* replaced span contains a character that an earlier replacement inserted.
C9_InsertedPseudonymNeverRematched ==
    \A ev \in Events : \A q \in 1..Len(ev.span) : ev.span[q] < 0

\* C10: every term of the mapping with no replaced occurrence is in the statistics with
\* count 0, so the report lists it as NOT FOUND.
C10_UnmatchedTermsReportedNotFound ==
    pc = "done" =>
      \A x \in 1..Len(all_terms) :
        LET e == all_terms[x]
        IN  (~\E ev \in Events : Key(ev) = Key(e)) =>
              \E ln \in write_stats(replacement_counts) :
                /\ <<ln.term, ln.replacement, ln.category>> = Key(e)
                /\ ln.line = "NOT FOUND"

\* C11: for every entry of the mapping, the count returned for its (term, pseudonym,
\* category) triple is the number of spans replaced for it, a span that takes in the
\* possessive 's being one span and counting once.
C11_CountEqualsReplacedSpans ==
    pc # "start" =>
        /\ \A k \in 1..Len(all_terms) :
              Count(replacement_counts, Key(all_terms[k])) = NumEvents(Key(all_terms[k]))
        /\ \A k \in DOMAIN replacement_counts : \E n \in 1..Len(all_terms) : Key(all_terms[n]) = k

C11_Witness ==
    /\ pc = "done"
    /\ text = <<"a", "'", "s", " ", "a">>
    /\ Len(log) = 2
    /\ log[1].matched = Len(log[1].term) + 2
    /\ log[2].matched = Len(log[2].term)
    /\ Count(replacement_counts, Key(log[1])) = 2

\* a term no detector response of the model holds, one pair per category
FreshPairs == {<<<<"z">>, c>> : c \in Categories}

\* C12: wherever process_file calls _generate_substitutions, running it a second time,
\* when every identified pair it mints for already has a pseudonym, changes nothing in
\* self.substitutions: every pair keeps its pseudonym and a new term of any category
\* then receives the index it would have received without the repeated call.
C12_RepeatedGenerateIsIdempotent ==
    pf_pc \in {"generate", "final_generate"} =>
      \A g \in generate_substitutions(substitutions, identified_terms) :
        g.ok =>
          \A h \in generate_substitutions(g.subs, identified_terms) :
              /\ h.ok
              /\ h.subs = g.subs
              /\ \A q \in FreshPairs : MintAll(h.subs, <<q>>) = MintAll(g.subs, <<q>>)

\* the final call of _generate_substitutions came after the call of the last checkpoint
\* and found two names already assigned
C12_Witness ==
    /\ pf_pc = "substitute"
    /\ processed_chunks = << >>
    /\ progress_file.exists
    /\ progress_file.last_processed_chunk = Len(chunks) - 1
    /\ progress_file.substitutions = substitutions
    /\ NumIn(substitutions, "names") = 2
    /\ identified_terms = DOMAIN substitutions

\* C13: the mapping an uninterrupted invocation on an empty output directory has minted
\* at completion is the mapping every uninterrupted invocation on the same chunks with
\* the same detector responses mints (pairs of the category dates, which get their
\* pseudonym from the language model and not from minting, left aside).
C13_MintingIsDeterministic ==
    (pf_pc = "completed" /\ Len(runs) = 1 /\ resume_from = 0)
    => \A o \in UninterruptedOutcomes :
          \A p \in DOMAIN o.map \cap DOMAIN mapping_file.mapping :
              p[2] # "dates" => o.map[p] = mapping_file.mapping[p]

(***************************************************************************)
(* Properties of _chunk_text                                               *)
(***************************************************************************)
\* C14: for chunk_size >= 1 the chunks cut so far, concatenated in order, are the text
\* up to the cursor and the returned chunks are the whole text; no chunk is empty.
C14_ChunksCoverTextExactly ==
    (ck_pc # "idle" /\ chunk_size >= 1) =>
        /\ ck_start <= Len(ck_text)
        /\ Concat(chunk_list) = SubSeq(ck_text, 1, ck_start)
        /\ \A k \in 1..Len(chunk_list) : chunk_list[k] # << >>
        /\ ck_pc = "done" => Concat(chunk_list) = ck_text

\* a text cut into several chunks, the first of them shortened to end at a sentence end
C14_Witness ==
    /\ ck_pc = "done"
    /\ chunk_size = 3
    /\ Len(chunk_list) >= 2
    /\ Len(chunk_list[1]) = 2
    /\ chunk_list[1][2] = "."

\* C15: every pass of the loop of _chunk_text moves the cursor strictly forward, whatever
\* the text and the chunk_size, so the loop ends after at most len(text) passes.
C15_CursorStrictlyAdvances ==
    [][(ck_pc = "loop" /\ chunk_list' # chunk_list) => ck_start' > ck_start]_vars

(***************************************************************************)
(* Properties of the progress file                                         *)
(***************************************************************************)
\* C16: whoever reads the progress file at any point of a checkpoint write, or after a
\* crash at that point, finds what the file held before the write (the whole previous
\* checkpoint, or no file) or the whole new checkpoint.
C16_CheckpointWriteIsAtomic ==
    observed.seen => observed.file \in {sv_prev, FileOf(sv_data)}

(***************************************************************************)
(* Properties of the detection loop                                        *)
(***************************************************************************)
\* a step in which detect_identifiers was called for chunk chunk_i and has returned
DetectorCalled ==
    /\ pf_pc = "detect"
    /\ pf_pc' # "exited"
    /\ <<pf_pc, chunk_i>>' # <<pf_pc, chunk_i>>

\* C17: in a run that loaded a checkpoint, the detector is called for no chunk whose
\* index is at most the checkpoint's last processed chunk index.
C17_ResumeSkipsProcessedChunks ==
    [][(loaded.exists /\ DetectorCalled) => chunk_i > loaded.last_processed_chunk]_vars

\* C18: whatever the detector does on a chunk, process_file is not aborted by it: no
\* invocation ends in the `except Exception` of process_file, which exits.
C18_ChunkFailureNeverFatal ==
    \A k \in 1..Len(runs) : runs[k].end # "error"

\* C19: once the detection loop is over, every chunk of this invocation for which the
\* detector raised, timed out or gave unparsable or malformed output is in failed_chunks.
C19_FailedChunksAreListed ==
    pf_pc \in {"final_generate", "substitute", "save_final", "completed"} =>
        \A k \in resume_from..(Len(chunks) - 1) :
            responses[k + 1].kind \in {"error", "badtype"} => k \in failed_chunks

\* C20: when the detector's response contains a JSON object, the result that
\* detect_identifiers returned holds every expected category and, in each, every
\* expected subcategory.
C20_ExpectedStructurePresent ==
    (dt_pc # "call" /\ response.kind = "json") =>
        \A k \in DOMAIN expected_categories :
            /\ Has(identifiers, expected_categories[k][1])
            /\ \A j \in DOMAIN expected_categories[k][2] :
                   Has(Get(identifiers, expected_categories[k][1]).pairs,
                       expected_categories[k][2][j])

\* C21: the checkpoint that the interrupt handler of the detection loop writes records
\* a chunk whose detection was complete: when the interrupt arrives while the detector
\* is at work on chunk chunk_i, the recorded index is below chunk_i.
C21_InterruptRecordsCompletedChunk ==
    [][(pf_pc = "detect" /\ pf_pc' = "exited") =>
          progress_file'.last_processed_chunk < chunk_i]_vars

(***************************************************************************)
(* Properties of the final artifacts                                       *)
(***************************************************************************)
\* a step that writes the redacted text or the mapping file, or marks the progress
\* file completed
WritesFinalArtifact ==
    \/ output_file' # output_file
    \/ mapping_file' # mapping_file
    \/ /\ progress_file' # progress_file
       /\ progress_file'.status = "completed"

C23_CompletedDocumentNotReprocessed ==
    [][(progress_file.exists /\ progress_file.status = "completed") =>
          (~DetectorCalled /\ output_file' = output_file)]_vars

\* C24: in a first run from chunk 0, when the detector is called for a chunk, every
\* name reported for an earlier chunk has its pseudonym in the progress file on disk.
C24_AssignmentPersistedBeforeNextChunk ==
    [][(Len(runs) = 1 /\ resume_from = 0 /\ DetectorCalled) =>
          \A p \in identified_terms :
              p[2] = "names" =>
                  /\ progress_file.exists
                  /\ p \in DOMAIN progress_file.substitutions]_vars

\* C25: when a run has completed, the redacted text file holds the substituted chunks
\* of the input, in order, each once.
C25_OutputIsConcatenationOfChunks ==
    pf_pc = "completed" =>
        /\ Len(processed_chunks) = Len(chunks)
        /\ output_file.content = Concat(processed_chunks)

(***************************************************************************)
(* Completeness of replace_terms                                           *)
(***************************************************************************)
\* no pseudonym of the mapping contains a registered term
PseudonymsHoldNoTerm ==
    \A x, y \in 1..Len(all_terms) :
        IsBlank(all_terms[y].term) \/ ~Contains(all_terms[x].replacement, all_terms[y].term)

\* the occurrence of all_terms[x].term at i touches no occurrence of a longer registered
\* term and no other occurrence of a registered term of its own length
StandsAlone(x, i) ==
    \A y \in 1..Len(all_terms) : \A j \in 0..Len(text) :
        (/\ OccursAt(text, all_terms[y].term, j)
         /\ Len(all_terms[y].term) >= Len(all_terms[x].term)
         /\ ~(j = i /\ all_terms[y].term = all_terms[x].term))
        => ~Overlap(i, Len(all_terms[x].term), j, Len(all_terms[y].term))

\* C26: when no pseudonym contains a registered term, every occurrence in the input of a
\* registered non-blank term that has a non-alphanumeric character or a text edge on
\* both sides and stands alone is replaced, whatever the length of the term.
C26_EveryValidOccurrenceReplaced ==
    (pc = "done" /\ PseudonymsHoldNoTerm) =>
        \A x \in 1..Len(all_terms) : \A i \in 0..Len(text) :
            (~IsBlank(all_terms[x].term) /\ ValidAt(text, all_terms[x].term, i)
               /\ StandsAlone(x, i))
            => \E ev \in Events :
                  /\ ev.term = all_terms[x].term
                  /\ Slice(ev.span, 0, Len(ev.term)) = InputSpan(i, Len(ev.term))

(***************************************************************************)
(* The substitution pass of process_file against replace_terms             *)
(***************************************************************************)
\* the final registry as entries of a mapping
RegistryEntries ==
    {Entry(p[1], substitutions[p], p[2]) : p \in DOMAIN substitutions}

\* C27: when a run has completed, the text produced for each chunk is what replace_terms
\* returns for the chunk with the pairs of the final registry (in some order of the
\* mapping's entries).
C27_SubstitutionPassEqualsReplaceTerms ==
    pf_pc = "completed" =>
        \A k \in 1..Len(processed_chunks) :
            \E es \in Perms(RegistryEntries) :
                processed_chunks[k] = replace_terms(chunks[k], MappingDict(es))

(***************************************************************************)
(* Where _chunk_text cuts                                                  *)
(***************************************************************************)
\* position p (0-based) of the text holds '.', '!' or '?' and a whitespace character follows
EndsSentence(p) ==
    /\ p >= 0
    /\ p + 1 < Len(ck_text)
    /\ At(ck_text, p) \in {".", "!", "?"}
    /\ IsSpace(At(ck_text, p + 1))

\* the end of a chunk that starts at ck_start, when the sentence ends among the
\* positions lo .. hard - 1 are taken into account
CutAfterLast(lo, hard) ==
    IF \E p \in lo..(hard - 1) : EndsSentence(p)
    THEN 1 + CHOOSE p \in lo..(hard - 1) :
                 EndsSentence(p) /\ \A q \in lo..(hard - 1) : EndsSentence(q) => q <= p
    ELSE hard

\* a pass of the loop that appends a chunk whose hard offset lies before the end of the text
AppendsNonFinalChunk ==
    /\ ck_pc = "loop"
    /\ chunk_list' # chunk_list
    /\ ck_start + chunk_size < Len(ck_text)

C29_MintingAlwaysSucceeds ==
    pf_pc = "save" =>
        \A p \in identified_terms :
            p[2] \in Categories =>
                /\ p \in DOMAIN substitutions
                /\ substitutions[p] # << >>

\* the categories _generate_substitutions mints for
MintedCategories == {"names", "places", "contacts", "businesses", "relationships"}

MintedPairs(subs) == {p \in DOMAIN subs : p[2] \in MintedCategories}

Families ==
    {FamilyName, FamilyMaleName, FamilyFemaleName, FamilyPlace, FamilyContact,
     FamilyBusiness, FamilyRelationship}

\* the number in a minted pseudonym
IndexOf(pseudonym) ==
    CHOOSE n \in 1..99 : \E family \in Families : pseudonym = Pseudonym(family, n)

\* C30: within an invocation, after every step no two distinct pairs minted by
\* _generate_substitutions hold the same pseudonym, and the index of every newly minted
\* pair is above the indices its category held before the step.
C30_PseudonymsAreUnique ==
    [][pf_pc \notin {"idle", "exited", "completed"} =>
          /\ \A p, q \in MintedPairs(substitutions') :
                p # q => substitutions'[p] # substitutions'[q]
          /\ \A p \in MintedPairs(substitutions') \ DOMAIN substitutions :
                \A q \in MintedPairs(substitutions) :
                    q[2] = p[2] => IndexOf(substitutions'[p]) > IndexOf(substitutions[q])]_vars

C30_Witness ==
    /\ pf_pc = "save"
    /\ Len(runs) = 2
    /\ runs[1].end = "completed"
    /\ mapping_file.exists
    /\ mapping_file.mapping = (<<<<"a">>, "names">> :> Pseudonym(FamilyName, 1))
    /\ substitutions = (<<<<"a">>, "names">> :> Pseudonym(FamilyName, 1)
                         @@ <<<<"B", "e", "n">>, "names">> :> Pseudonym(FamilyMaleName, 2))

====
